---- MODULE Spec2Model ----
(***************************************************************************)
(* housekeeper: the packaging descriptor setup.py.                         *)
(*                                                                         *)
(* The descriptor is a module of three statements: two imports and one     *)
(* call of distutils.core.setup with literal keyword arguments.  A run is  *)
(* one execution of that module by a Python interpreter in some            *)
(* environment (command line, source tree, target directories, standard    *)
(* library).  Two runs are modelled side by side so that statements about  *)
(* pairs of runs can be checked.                                           *)
(*                                                                         *)
(* distutils.core.setup is not part of the repository.  It is modelled by  *)
(* the steps the stdlib routine takes for a distribution that declares     *)
(* only scripts: parse the command line, then for `build` run              *)
(* build_scripts, and for `install` run build, install_scripts and         *)
(* install_egg_info, each command at most once; any error inside becomes   *)
(* SystemExit raised out of setup().                                       *)
(***************************************************************************)
EXTENDS Integers, Sequences, FiniteSets, TLC

VARIABLES env, ip, inside, todo, calls, built, installed, raised, status

vars == <<env, ip, inside, todo, calls, built, installed, raised, status>>

\* Longest command line (number of commands after `setup.py`) explored.
MaxArgs == 2

\* The runs modelled side by side.
Runs == {1, 2}

----------------------------------------------------------------------------
\* The environment of a run

Commands == {"build", "install"}

Argvs == UNION {[1..n -> Commands] : n \in 0..MaxArgs}

\* Files the source tree may hold next to setup.py.
TreeFiles == {"housekeeper"}

Envs ==
    [argv : Argvs,
     files : SUBSET TreeFiles,
     lib_writable : BOOLEAN,
     has_distutils : BOOLEAN]

----------------------------------------------------------------------------
\* The literals of the setup() call, setup.py lines 23-30

Name == "housekeeper"

VersionBumped == "1.0.0"

Version == "1.0"

RequiresDateutil == <<"python-dateutil">>

Requires == <<>>

DescriptionShort == "Remove old files"

Description == "Remove old files, links and directories"

Author == "Simone Campagna"

AuthorEmail == "simone.campagna@tiscali.it"

Url == "https://github.com/simone-campagna/housekeeper"

ScriptsNone == <<>>

Scripts == <<"housekeeper">>

\* A descriptor that derives its version from the command line.
SetupKwargsFromEnv(e) ==
    [name |-> Name,
     version |-> IF e.argv = <<>> THEN Version ELSE Version \o "." \o e.argv[1],
     requires |-> Requires,
     description |-> Description,
     author |-> Author,
     author_email |-> AuthorEmail,
     url |-> Url,
     scripts |-> Scripts]

\* The keyword arguments of the call, as evaluated in environment e: every
\* one is a literal, e is not consulted.
SetupKwargs(e) ==
    [name |-> Name,
     version |-> Version,
     requires |-> Requires,
     description |-> Description,
     author |-> Author,
     author_email |-> AuthorEmail,
     url |-> Url,
     scripts |-> Scripts]

\* A descriptor that calls setup() a second time.
StmtsCallTwice == <<"import_setup", "import_os", "call_setup", "call_setup">>

\* The statements of the module, in order.
Stmts == <<"import_setup", "import_os", "call_setup">>

\* A descriptor that wraps the call in try/except and drops the error.
Swallow(exc) == "none"

\* The exception that leaves the call statement when setup() raised exc:
\* no try/except encloses the call, so it is exc itself.
Unhandled(exc) == exc

----------------------------------------------------------------------------
\* distutils.core.setup

Range(s) == {s[i] : i \in 1..Len(s)}

\* The steps one command runs for a distribution whose only content is
\* `scripts`: build -> build_scripts; install -> build, install_scripts,
\* install_egg_info.  Commands without anything to do are skipped.
SubCommands(cmd, scripts) ==
    LET has_scripts == scripts # <<>>
        build == IF has_scripts THEN <<"build_scripts">> ELSE <<>>
    IN  IF cmd = "build"
        THEN build
        ELSE build
             \o (IF has_scripts THEN <<"install_scripts">> ELSE <<>>)
             \o <<"install_egg_info">>

RECURSIVE Dedup(_, _)
\* s without the elements of seen and without repeats: a command object
\* runs once per Distribution (have_run).
Dedup(s, seen) ==
    IF s = <<>> THEN <<>>
    ELSE IF Head(s) \in seen
         THEN Dedup(Tail(s), seen)
         ELSE <<Head(s)>> \o Dedup(Tail(s), seen \cup {Head(s)})

RECURSIVE Flatten(_, _)
Flatten(argv, scripts) ==
    IF argv = <<>> THEN <<>>
    ELSE SubCommands(Head(argv), scripts) \o Flatten(Tail(argv), scripts)

\* The steps run_commands() performs for a command line.
Plan(argv, scripts) == Dedup(Flatten(argv, scripts), {})

----------------------------------------------------------------------------
\* The state of the runs: env, the environment each run started in; ip,
\* the index of its next statement; inside, whether control is in setup();
\* todo, the steps setup() still has to run; calls, the keyword arguments of
\* each setup() call made; built and installed, the scripts copied to the
\* build and to the script directory; raised, the exception raised; status,
\* the interpreter's exit status.
TypeOK ==
    /\ env \in [Runs -> Envs]
    /\ ip \in [Runs -> 1..(Len(Stmts) + 1)]
    /\ inside \in [Runs -> BOOLEAN]
    /\ \A r \in Runs :
           Range(todo[r]) \subseteq
               {"parse_command_line", "build_scripts", "install_scripts",
                "install_egg_info"}
    /\ \A r \in Runs : \A i \in 1..Len(calls[r]) :
           DOMAIN calls[r][i] =
               {"name", "version", "requires", "description", "author",
                "author_email", "url", "scripts"}
    /\ built \in [Runs -> SUBSET TreeFiles]
    /\ installed \in [Runs -> SUBSET TreeFiles]
    /\ raised \in [Runs -> {"none", "ImportError", "SystemExit"}]
    /\ status \in [Runs -> {"running", "exit0", "exit1"}]

Init ==
    /\ env \in [Runs -> Envs]
    /\ ip = [r \in Runs |-> 1]
    /\ inside = [r \in Runs |-> FALSE]
    /\ todo = [r \in Runs |-> <<>>]
    /\ calls = [r \in Runs |-> <<>>]
    /\ built = [r \in Runs |-> {}]
    /\ installed = [r \in Runs |-> {}]
    /\ raised = [r \in Runs |-> "none"]
    /\ status = [r \in Runs |-> "running"]

\* Run r is about to execute statement s of the module.
At(r, s) ==
    /\ status[r] = "running"
    /\ ~inside[r]
    /\ ip[r] <= Len(Stmts)
    /\ Stmts[ip[r]] = s

\* Run r is inside setup() and its next step is s.
Doing(r, s) ==
    /\ status[r] = "running"
    /\ inside[r]
    /\ todo[r] # <<>>
    /\ Head(todo[r]) = s

\* A step inside setup() fails: the error is turned into SystemExit and
\* the remaining steps are abandoned.
Fail(r) ==
    /\ raised' = [raised EXCEPT ![r] = "SystemExit"]
    /\ todo' = [todo EXCEPT ![r] = <<>>]

\* line 17: from distutils.core import setup
ImportSetup(r) ==
    /\ At(r, "import_setup")
    /\ IF env[r].has_distutils
       THEN /\ ip' = [ip EXCEPT ![r] = @ + 1]
            /\ UNCHANGED <<raised, status>>
       ELSE /\ raised' = [raised EXCEPT ![r] = "ImportError"]
            /\ status' = [status EXCEPT ![r] = "exit1"]
            /\ UNCHANGED ip
    /\ UNCHANGED <<env, inside, todo, calls, built, installed>>

\* line 18: import os
ImportOs(r) ==
    /\ At(r, "import_os")
    /\ ip' = [ip EXCEPT ![r] = @ + 1]
    /\ UNCHANGED <<env, inside, todo, calls, built, installed, raised, status>>

\* lines 22-31: the arguments are evaluated and control enters setup().
CallSetup(r) ==
    /\ At(r, "call_setup")
    /\ calls' = [calls EXCEPT ![r] = Append(@, SetupKwargs(env[r]))]
    /\ inside' = [inside EXCEPT ![r] = TRUE]
    /\ todo' = [todo EXCEPT ![r] = <<"parse_command_line">>]
    /\ UNCHANGED <<env, ip, built, installed, raised, status>>

\* setup(): Distribution.parse_command_line; no command is an error.
ParseCommandLine(r) ==
    /\ Doing(r, "parse_command_line")
    /\ IF env[r].argv = <<>>
       THEN Fail(r)
       ELSE /\ todo' = [todo EXCEPT ![r] =
                           Plan(env[r].argv, calls[r][Len(calls[r])].scripts)]
            /\ UNCHANGED raised
    /\ UNCHANGED <<env, ip, inside, calls, built, installed, status>>

\* build_scripts: copy every declared script into the build directory; a
\* script missing from the source tree is an error.
BuildScripts(r) ==
    /\ Doing(r, "build_scripts")
    /\ LET scripts == Range(calls[r][Len(calls[r])].scripts)
       IN  IF scripts \subseteq env[r].files
           THEN /\ built' = [built EXCEPT ![r] = scripts]
                /\ todo' = [todo EXCEPT ![r] = Tail(@)]
                /\ UNCHANGED raised
           ELSE /\ Fail(r)
                /\ UNCHANGED built
    /\ UNCHANGED <<env, ip, inside, calls, installed, status>>

\* install_scripts: copy the build directory's scripts to the script
\* directory.
InstallScripts(r) ==
    /\ Doing(r, "install_scripts")
    /\ installed' = [installed EXCEPT ![r] = built[r]]
    /\ todo' = [todo EXCEPT ![r] = Tail(@)]
    /\ UNCHANGED <<env, ip, inside, calls, built, raised, status>>

\* install_egg_info: write the metadata file into the library directory.
InstallEggInfo(r) ==
    /\ Doing(r, "install_egg_info")
    /\ IF env[r].lib_writable
       THEN /\ todo' = [todo EXCEPT ![r] = Tail(@)]
            /\ UNCHANGED raised
       ELSE Fail(r)
    /\ UNCHANGED <<env, ip, inside, calls, built, installed, status>>

\* Control leaves setup(): normally to the next statement, or with the
\* exception, which nothing in the module catches.
SetupReturns(r) ==
    /\ status[r] = "running"
    /\ inside[r]
    /\ todo[r] = <<>>
    /\ inside' = [inside EXCEPT ![r] = FALSE]
    /\ IF Unhandled(raised[r]) = "none"
       THEN /\ ip' = [ip EXCEPT ![r] = @ + 1]
            /\ UNCHANGED status
       ELSE /\ status' = [status EXCEPT ![r] = "exit1"]
            /\ UNCHANGED ip
    /\ UNCHANGED <<env, todo, calls, built, installed, raised>>

\* After line 31 the module ends and the interpreter exits with status 0.
EndOfModule(r) ==
    /\ status[r] = "running"
    /\ ~inside[r]
    /\ ip[r] = Len(Stmts) + 1
    /\ status' = [status EXCEPT ![r] = "exit0"]
    /\ UNCHANGED <<env, ip, inside, todo, calls, built, installed, raised>>

Step(r) ==
    \/ ImportSetup(r)
    \/ ImportOs(r)
    \/ CallSetup(r)
    \/ ParseCommandLine(r)
    \/ BuildScripts(r)
    \/ InstallScripts(r)
    \/ InstallEggInfo(r)
    \/ SetupReturns(r)
    \/ EndOfModule(r)

Next == \E r \in Runs : Step(r)

Spec == Init /\ [][Next]_vars

\* A started interpreter runs its statements to completion, and every step
\* of the packaging routine is a finite file operation.
FairSpec == Spec /\ \A r \in Runs : WF_vars(Step(r))

----------------------------------------------------------------------------
\* Vocabulary of the properties

Called(r) == calls[r] # <<>>

Exited(r) == status[r] # "running"

\* setup() failed in run r.
Failed(r) == raised[r] = "SystemExit"

Installs(r) == "install" \in Range(env[r].argv)

----------------------------------------------------------------------------
\* C1: the scripts handed to setup() are exactly the one script `housekeeper`,
\* and a run of the install command that exits successfully has installed
\* exactly that script.
C1_OneScript ==
    \A r \in Runs :
        /\ Called(r) => calls[r][1].scripts = <<"housekeeper">>
        /\ (status[r] = "exit0" /\ Installs(r)) => installed[r] = {"housekeeper"}

C1_Witness ==
    \E r \in Runs :
        /\ status[r] = "exit0"
        /\ Installs(r)
        /\ installed[r] = {"housekeeper"}

\* C2: the version argument of every setup() call is the string "1.0".
C2_Version ==
    \A r \in Runs : \A i \in 1..Len(calls[r]) : calls[r][i].version = "1.0"

C2_Witness ==
    \E r \in Runs : Called(r) /\ Exited(r) /\ calls[r][1].version = "1.0"

\* C3: the requires argument of every setup() call is the empty list.
C3_NoRequires ==
    \A r \in Runs : \A i \in 1..Len(calls[r]) : calls[r][i].requires = <<>>

C3_Witness ==
    \E r \in Runs : Called(r) /\ status[r] = "exit0" /\ Len(calls[r][1].requires) = 0

\* C4: every setup() call names the package `housekeeper` and describes it as
\* "Remove old files, links and directories".
C4_NameDescription ==
    \A r \in Runs : \A i \in 1..Len(calls[r]) :
        /\ calls[r][i].name = "housekeeper"
        /\ calls[r][i].description = "Remove old files, links and directories"

C4_Witness ==
    \E r \in Runs : Called(r) /\ inside[r] /\ calls[r][1].name = "housekeeper"

\* C5 as stated: when setup() fails, the run does not report success, the
\* call is not repeated, and no script has been installed.
C5_FailureInstallsNothing ==
    \A r \in Runs :
        Failed(r) =>
            /\ status[r] # "exit0"
            /\ Len(calls[r]) = 1
            /\ installed[r] = {}

\* C5 as amended: when setup() fails, the run does not report success and the
\* call is not repeated; no script has been installed when the failure came
\* before install_scripts (no command given, or the script file absent from
\* the source tree); a script is left installed only by an install whose
\* library directory could not be written.
C5_FailureIsOutcome ==
    \A r \in Runs :
        Failed(r) =>
            /\ status[r] # "exit0"
            /\ Len(calls[r]) = 1
            /\ (env[r].argv = <<>> \/ "housekeeper" \notin env[r].files)
                   => installed[r] = {}
            /\ installed[r] # {} => (Installs(r) /\ ~env[r].lib_writable)

C5_Witness ==
    \E r \in Runs :
        /\ Failed(r)
        /\ status[r] = "exit1"
        /\ Installs(r)
        /\ "housekeeper" \notin env[r].files
        /\ installed[r] = {}

\* What holds of the calls of each run at every moment: at most one; a run
\* that has ended made exactly one unless the import failed, and then none;
\* once the call has returned no statement is left to execute.
C6_OneCall ==
    \A r \in Runs :
        /\ Len(calls[r]) <= 1
        /\ Exited(r) =>
               Len(calls[r]) = (IF raised[r] = "ImportError" THEN 0 ELSE 1)
        /\ (Called(r) /\ ~inside[r] /\ ~Exited(r)) => ip[r] > Len(Stmts)

\* C6: a run calls setup() exactly once after a successful import (never
\* twice, and never when the import failed), nothing is left to execute once
\* the call has returned, and every run ends.
C6_CalledOnce == [] C6_OneCall /\ <>(\A r \in Runs : Exited(r))

C6_Witness ==
    /\ \E r \in Runs : status[r] = "exit0" /\ Len(calls[r]) = 1
    /\ \E r \in Runs : Exited(r) /\ raised[r] = "ImportError" /\ calls[r] = <<>>

\* C7: any two runs, whatever their environments, pass the same keyword
\* arguments to setup().
C7_SameKwargs ==
    \A r1, r2 \in Runs :
        (Called(r1) /\ Called(r2)) => calls[r1][1] = calls[r2][1]

C7_Witness ==
    \E r1, r2 \in Runs :
        /\ Called(r1) /\ Called(r2)
        /\ env[r1].argv # env[r2].argv
        /\ env[r1].files # env[r2].files
        /\ env[r1].lib_writable # env[r2].lib_writable
        /\ Exited(r1) /\ Exited(r2)

====
